---- MODULE Spec2Model ----
(***************************************************************************)
(* A model of skaf0's ArtifactResolver: the registry of artifacts and      *)
(* watch channels, guarded by one mutex, and the operations on it          *)
(* (GetDependencies, AddWatch, TriggerRebuild, TriggerRebuilds, WatchPath   *)
(* and the three list operations).                                         *)
(*                                                                         *)
(* Strings that the code inspects character by character (image names and  *)
(* pattern expressions) are tuples of one-character strings.  Paths are    *)
(* tuples of path components; an absolute path starts with "/".            *)
(***************************************************************************)
EXTENDS Integers, Sequences, FiniteSets, TLC

(***************************************************************************)
(* Bounds of the model.                                                    *)
(***************************************************************************)
\* capacity of the buffered watch channel
BufCap == 1

(***************************************************************************)
(* Data: image names, workspaces, pattern expressions.                     *)
(***************************************************************************)
frontend == <<"f","r","o","n","t","e","n","d">>
backend == <<"b","a","c","k","e","n","d">>
backendApi == <<"b","a","c","k","e","n","d","-","a","p","i">>
nonexistent == <<"n","o","n","e","x","i","s","t","e","n","t">>

ImageNames == {frontend, backend, backendApi}

frontendWorkspace == <<"frontend-workspace">>
backendWorkspace == <<"backend-workspace">>
absWorkspace == <<"/", "abs">>

\* the process working directory, when os.Getwd succeeds
wd == <<"/", "wd">>

\* the two kinds of watch channel: make(chan T) and make(chan T, n)
Channels == {"unbuf", "buf"}
Cap(c) == IF c = "buf" THEN BufCap ELSE 0

NoName == <<>>
NoPath == <<>>
NoChan == "none"
NoFile == 0

(***************************************************************************)
(* strings.Split(pattern, ",") and strings.TrimSpace.                      *)
(***************************************************************************)
RECURSIVE SplitFrom(_, _)
\* acc is the piece being collected; returns the pieces of s after acc
SplitFrom(s, acc) ==
    IF s = <<>> THEN <<acc>>
    ELSE IF Head(s) = "," THEN <<acc>> \o SplitFrom(Tail(s), <<>>)
    ELSE SplitFrom(Tail(s), Append(acc, Head(s)))

Split(s) == SplitFrom(s, <<>>)

IsSpace(ch) == ch = " "

RECURSIVE TrimLeft(_)
TrimLeft(s) ==
    IF s # <<>> /\ IsSpace(Head(s)) THEN TrimLeft(Tail(s)) ELSE s

RECURSIVE TrimRight(_)
TrimRight(s) ==
    IF s # <<>> /\ IsSpace(s[Len(s)]) THEN TrimRight(SubSeq(s, 1, Len(s) - 1)) ELSE s

TrimSpace(s) == TrimRight(TrimLeft(s))

\* lines 75-78: split on commas, trim each piece
Patterns(expr) == [i \in 1..Len(Split(expr)) |-> TrimSpace(Split(expr)[i])]

(***************************************************************************)
(* glob.Compile and Glob.Match, for patterns made of literals, "*", "?"    *)
(* and "[": a "[" with no closing "]" does not compile.                    *)
(***************************************************************************)
\* CompileOk as it would be if every pattern compiled
CompileOkAlways(p) == TRUE

CompileOk(p) ==
    \A i \in 1..Len(p) : p[i] = "[" => \E j \in (i+1)..Len(p) : p[j] = "]"

RECURSIVE Match(_, _)
Match(p, s) ==
    IF p = <<>> THEN s = <<>>
    ELSE IF Head(p) = "*"
         THEN Match(Tail(p), s) \/ (s # <<>> /\ Match(p, Tail(s)))
         ELSE /\ s # <<>>
              /\ (Head(p) = "?" \/ Head(p) = Head(s))
              /\ Match(Tail(p), Tail(s))

(***************************************************************************)
(* filepath.IsAbs, filepath.Join and WatchPath.                            *)
(***************************************************************************)
IsAbs(path) == path # <<>> /\ path[1] = "/"

RECURSIVE Clean(_)
\* filepath.Join cleans its result: "." components disappear
Clean(path) ==
    IF path = <<>> THEN <<>>
    ELSE IF Head(path) = "." THEN Clean(Tail(path))
    ELSE <<Head(path)>> \o Clean(Tail(path))

Join(a, b) == Clean(a \o b)

\* lines 112-127; getwdOk is whether os.Getwd succeeds at this call
WatchPath(workspace, getwdOk) ==
    IF ~getwdOk
    THEN [err |-> "failed to get working directory", path |-> NoPath]
    ELSE [err |-> "nil",
          path |-> IF IsAbs(workspace)
                   THEN Join(workspace, <<"...">>)
                   ELSE Join(Join(wd, workspace), <<"...">>)]

(***************************************************************************)
(* State.                                                                  *)
(***************************************************************************)
Procs == {"p1", "p2"}
NoProc == "none"

VARIABLES
    mtx,        \* r.mtx: the caller holding it, or NoProc
    artifacts,  \* r.artifacts: imageName -> artifact record
    watches,    \* r.watches: watch path -> channel
    fs,         \* the temp files created so far: fs[f] is file f
    chans,      \* the events buffered in each channel
    receiving,  \* the unbuffered channels whose consumer is blocked in a receive
    pc,         \* where each caller is
    call,       \* the call each caller is executing
    loc,        \* the locals of that call, and what it has done so far
    out         \* what the last step did: file written, event sent, value returned

vars == <<mtx, artifacts, watches, fs, chans, receiving, pc, call, loc, out>>

EmptyMap == [k \in {} |-> NoFile]

\* m with key k bound to v
Put(m, k, v) == [x \in (DOMAIN m) \cup {k} |-> IF x = k THEN v ELSE m[x]]

\* fresh is history: the call is a GetDependencies that started when its
\* image name had no record
NoCall == [op |-> "none", name |-> NoName, ws |-> NoPath, path |-> NoPath,
           ch |-> NoChan, events |-> <<>>, expr |-> <<>>, fresh |-> FALSE]

NoArt == [imageName |-> NoName, workspace |-> NoPath, triggerFile |-> NoFile]

\* what a call has done so far: the files it wrote, the events it sent (each
\* with its channel), whether it changed r.artifacts or r.watches
NoEff == [writes |-> <<>>, sends |-> <<>>, maps |-> FALSE]

NoLoc == [art |-> NoArt, watch |-> NoChan, snapshot |-> <<>>, matched |-> <<>>,
          idx |-> 0, errs |-> <<>>, eff |-> NoEff]

NoRet == [call |-> NoCall, err |-> "none", pat |-> <<>>, errs |-> <<>>,
          files |-> <<>>, list |-> {}, tf |-> {}, path |-> NoPath, eff |-> NoEff]

NoEvent == [chan |-> NoChan, path |-> NoFile]

NoOut == [wrote |-> NoFile, event |-> NoEvent, by |-> NoProc, ret |-> NoRet]

Init ==
    /\ mtx = NoProc
    /\ artifacts = EmptyMap
    /\ watches = EmptyMap
    /\ fs = <<>>
    /\ chans = [c \in Channels |-> <<>>]
    /\ receiving = {}
    /\ pc = [p \in Procs |-> "idle"]
    /\ call = [p \in Procs |-> NoCall]
    /\ loc = [p \in Procs |-> NoLoc]
    /\ out = NoOut

(***************************************************************************)
(* Entering a method, the mutex, returning.                                *)
(***************************************************************************)
\* where a caller is after the r.mtx.Lock() that it reached at pc value at
AfterLock(at) ==
    CASE at = "gd_lock" -> "gd_lookup"
      [] at = "aw_lock" -> "aw_store"
      [] at = "tr_lock" -> "tr_lookup"
      [] at = "ga_lock" -> "ga_read"
      [] at = "tf_lock" -> "tf_read"
      [] at = "gw_lock" -> "gw_read"

LockPcs == {"gd_lock", "aw_lock", "tr_lock", "ga_lock", "tf_lock", "gw_lock"}

\* caller p calls c and arrives at the r.mtx.Lock() of pc value at
Start(p, c, at) ==
    /\ pc[p] = "idle"
    /\ pc' = [pc EXCEPT ![p] = at]
    /\ call' = [call EXCEPT ![p] = c]
    /\ loc' = [loc EXCEPT ![p] = NoLoc]
    /\ out' = NoOut
    /\ UNCHANGED <<mtx, artifacts, watches, fs, chans, receiving>>

\* Lock as it would be if the mutex excluded nobody
LockNoWait(p) ==
    /\ pc[p] \in LockPcs
    /\ mtx' = p
    /\ pc' = [pc EXCEPT ![p] = AfterLock(pc[p])]
    /\ out' = NoOut
    /\ UNCHANGED <<artifacts, watches, fs, chans, receiving, call, loc>>

\* r.mtx.Lock(): blocks until the mutex is free
Lock(p) ==
    /\ pc[p] \in LockPcs
    /\ mtx = NoProc
    /\ mtx' = p
    /\ pc' = [pc EXCEPT ![p] = AfterLock(pc[p])]
    /\ out' = NoOut
    /\ UNCHANGED <<artifacts, watches, fs, chans, receiving, call, loc>>

\* caller p calls c when the mutex is free and gets it at once: Start and
\* Lock in one step
Enter(p, c, at) ==
    /\ pc[p] = "idle"
    /\ mtx = NoProc
    /\ mtx' = p
    /\ pc' = [pc EXCEPT ![p] = AfterLock(at)]
    /\ call' = [call EXCEPT ![p] = c]
    /\ loc' = [loc EXCEPT ![p] = NoLoc]
    /\ out' = NoOut
    /\ UNCHANGED <<artifacts, watches, fs, chans, receiving>>

\* the deferred r.mtx.Unlock()
Unlock(p) == mtx' = IF mtx = p THEN NoProc ELSE mtx

\* what the call of p has done, this step included: w is the file the step
\* wrote, e the event it sent (NoFile, NoEvent when it did not)
Eff(p, w, e) ==
    [writes |-> IF w = NoFile THEN loc[p].eff.writes ELSE Append(loc[p].eff.writes, w),
     sends |-> IF e = NoEvent THEN loc[p].eff.sends ELSE Append(loc[p].eff.sends, e),
     maps |-> loc[p].eff.maps \/ artifacts' # artifacts \/ watches' # watches]

\* a step of p that does not return: it wrote w and sent e
Step(p, w, e) ==
    out' = [NoOut EXCEPT !.wrote = w, !.event = e]

\* the step of p in which its call returns r, having written w and sent e
Return(p, r, w, e) ==
    /\ pc' = [pc EXCEPT ![p] = "idle"]
    /\ call' = [call EXCEPT ![p] = NoCall]
    /\ loc' = [loc EXCEPT ![p] = NoLoc]
    /\ out' = [NoOut EXCEPT !.wrote = w, !.event = e, !.by = p,
                            !.ret = [r EXCEPT !.call = call[p], !.eff = Eff(p, w, e)]]

(***************************************************************************)
(* GetDependencies, lines 158-182.                                         *)
(***************************************************************************)
GetDependenciesOf(name, ws) ==
    [NoCall EXCEPT !.op = "GetDependencies", !.name = name, !.ws = ws,
                   !.fresh = name \notin DOMAIN artifacts]

CallGetDependencies(p, name, ws) == Enter(p, GetDependenciesOf(name, ws), "gd_lock")

StartGetDependencies(p, name, ws) == Start(p, GetDependenciesOf(name, ws), "gd_lock")

\* GetDependenciesLookup as it would be if the record found were not used
GetDependenciesLookupMiss(p) ==
    /\ pc[p] = "gd_lookup"
    /\ UNCHANGED <<artifacts, watches, fs, chans, receiving>>
    /\ pc' = [pc EXCEPT ![p] = "gd_create"]
    /\ Step(p, NoFile, NoEvent)
    /\ UNCHANGED <<mtx, call, loc>>

\* GetDependenciesLookup as it would be if a repeated inquiry brought the
\* record's workspace up to date
GetDependenciesLookupRebind(p) ==
    /\ pc[p] = "gd_lookup"
    /\ UNCHANGED <<watches, fs, chans, receiving>>
    /\ IF call[p].name \in DOMAIN artifacts
       THEN /\ artifacts' = [artifacts EXCEPT ![call[p].name].workspace = call[p].ws]
            /\ Return(p, [NoRet EXCEPT !.err = "nil",
                             !.files = <<artifacts[call[p].name].triggerFile>>],
                      NoFile, NoEvent)
            /\ Unlock(p)
       ELSE /\ UNCHANGED artifacts
            /\ pc' = [pc EXCEPT ![p] = "gd_create"]
            /\ Step(p, NoFile, NoEvent)
            /\ UNCHANGED <<mtx, call, loc>>

\* line 162 and, when the record exists, line 181
GetDependenciesLookup(p) ==
    /\ pc[p] = "gd_lookup"
    /\ UNCHANGED <<artifacts, watches, fs, chans, receiving>>
    /\ IF call[p].name \in DOMAIN artifacts
       THEN /\ Return(p, [NoRet EXCEPT !.err = "nil",
                             !.files = <<artifacts[call[p].name].triggerFile>>],
                      NoFile, NoEvent)
            /\ Unlock(p)
       ELSE /\ pc' = [pc EXCEPT ![p] = "gd_create"]
            /\ Step(p, NoFile, NoEvent)
            /\ UNCHANGED <<mtx, call, loc>>

\* GetDependenciesCreate as it would be if the record were stored before the
\* file is created, and left behind when the creation fails
GetDependenciesCreateStoreFirst(p) ==
    /\ pc[p] = "gd_create"
    /\ UNCHANGED <<watches, chans, receiving>>
    /\ Unlock(p)
    /\ \E ok \in BOOLEAN :
         IF ok
         THEN LET f == Len(fs) + 1
                  art == [imageName |-> call[p].name, workspace |-> call[p].ws,
                          triggerFile |-> f]
              IN /\ fs' = Append(fs, [size |-> 0])
                 /\ artifacts' = Put(artifacts, call[p].name, art)
                 /\ Return(p, [NoRet EXCEPT !.err = "nil", !.files = <<art.triggerFile>>],
                           NoFile, NoEvent)
         ELSE /\ UNCHANGED fs
              /\ artifacts' = Put(artifacts, call[p].name,
                                  [imageName |-> call[p].name, workspace |-> call[p].ws,
                                   triggerFile |-> NoFile])
              /\ Return(p, [NoRet EXCEPT !.err = "failed to create temp file"],
                        NoFile, NoEvent)

\* lines 165-181; os.CreateTemp either fails or creates a new empty file
GetDependenciesCreate(p) ==
    /\ pc[p] = "gd_create"
    /\ UNCHANGED <<watches, chans, receiving>>
    /\ Unlock(p)
    /\ \E ok \in BOOLEAN :
         IF ok
         THEN LET f == Len(fs) + 1
                  art == [imageName |-> call[p].name, workspace |-> call[p].ws,
                          triggerFile |-> f]
              IN /\ fs' = Append(fs, [size |-> 0])
                 /\ artifacts' = Put(artifacts, call[p].name, art)
                 /\ Return(p, [NoRet EXCEPT !.err = "nil", !.files = <<art.triggerFile>>],
                           NoFile, NoEvent)
         ELSE /\ UNCHANGED <<fs, artifacts>>
              /\ Return(p, [NoRet EXCEPT !.err = "failed to create temp file"],
                        NoFile, NoEvent)

(***************************************************************************)
(* AddWatch, lines 39-45.                                                  *)
(***************************************************************************)
\* the variadic events of AddWatch: none, as the tests pass, or some
NoEvents == <<>>

AddWatchOf(path, c, events) ==
    [NoCall EXCEPT !.op = "AddWatch", !.path = path, !.ch = c, !.events = events]

CallAddWatch(p, path, c, events) == Enter(p, AddWatchOf(path, c, events), "aw_lock")

StartAddWatch(p, path, c, events) == Start(p, AddWatchOf(path, c, events), "aw_lock")

\* AddWatchStore as it would be if registering a watch announced itself on
\* the channel
AddWatchStoreNotify(p) ==
    /\ pc[p] = "aw_store"
    /\ watches' = Put(watches, call[p].path, call[p].ch)
    /\ chans' = [chans EXCEPT ![call[p].ch] = Append(@, NoFile)]
    /\ UNCHANGED <<artifacts, fs, receiving>>
    /\ Unlock(p)
    /\ Return(p, [NoRet EXCEPT !.err = "nil"], NoFile, NoEvent)

\* AddWatchStore as it would be if the first registration of a path were kept
AddWatchStoreKeepFirst(p) ==
    /\ pc[p] = "aw_store"
    /\ watches' = IF call[p].path \in DOMAIN watches THEN watches
                  ELSE Put(watches, call[p].path, call[p].ch)
    /\ UNCHANGED <<artifacts, fs, chans, receiving>>
    /\ Unlock(p)
    /\ Return(p, [NoRet EXCEPT !.err = "nil"], NoFile, NoEvent)

AddWatchStore(p) ==
    /\ pc[p] = "aw_store"
    /\ watches' = Put(watches, call[p].path, call[p].ch)
    /\ UNCHANGED <<artifacts, fs, chans, receiving>>
    /\ Unlock(p)
    /\ Return(p, [NoRet EXCEPT !.err = "nil"], NoFile, NoEvent)

(***************************************************************************)
(* TriggerRebuild, lines 129-156.  It is called directly or by the loop of *)
(* TriggerRebuilds, whose current element is matched[idx].                 *)
(***************************************************************************)
TriggerRebuildOf(name) == [NoCall EXCEPT !.op = "TriggerRebuild", !.name = name]

CallTriggerRebuild(p, name) == Enter(p, TriggerRebuildOf(name), "tr_lock")

StartTriggerRebuild(p, name) == Start(p, TriggerRebuildOf(name), "tr_lock")

\* the artifactName argument of the TriggerRebuild that p is executing
Cur(p) ==
    IF call[p].op = "TriggerRebuild" THEN call[p].name
    ELSE loc[p].matched[loc[p].idx]

\* lines 99-109: what TriggerRebuilds returns once every attempt is made
Aggregate(errs) ==
    [NoRet EXCEPT !.err = IF errs = <<>> THEN "nil" ELSE "errors triggering rebuilds",
                  !.errs = errs]

\* TriggerRebuildReturn as it would be if the loop of TriggerRebuilds stopped
\* at the first attempt that fails
TriggerRebuildReturnShort(p, err, w, e) ==
    /\ Unlock(p)
    /\ IF call[p].op = "TriggerRebuild"
       THEN Return(p, [NoRet EXCEPT !.err = err], w, e)
       ELSE LET errs == IF err = "nil" THEN loc[p].errs
                        ELSE Append(loc[p].errs, [name |-> Cur(p), err |-> err])
            IN IF loc[p].idx = Len(loc[p].matched) \/ err # "nil"
               THEN Return(p, Aggregate(errs), w, e)
               ELSE /\ pc' = [pc EXCEPT ![p] = "tr_lock"]
                    /\ loc' = [loc EXCEPT ![p] =
                                 [@ EXCEPT !.idx = @ + 1, !.errs = errs, !.art = NoArt,
                                           !.watch = NoChan, !.eff = Eff(p, w, e)]]
                    /\ Step(p, w, e)
                    /\ UNCHANGED call

\* TriggerRebuild returns err, having written w and sent e in this step: to
\* the caller of p, or into the loop of TriggerRebuilds (lines 100-104),
\* which goes on to its next element
TriggerRebuildReturn(p, err, w, e) ==
    /\ Unlock(p)
    /\ IF call[p].op = "TriggerRebuild"
       THEN Return(p, [NoRet EXCEPT !.err = err], w, e)
       ELSE LET errs == IF err = "nil" THEN loc[p].errs
                        ELSE Append(loc[p].errs, [name |-> Cur(p), err |-> err])
            IN IF loc[p].idx = Len(loc[p].matched)
               THEN Return(p, Aggregate(errs), w, e)
               ELSE /\ pc' = [pc EXCEPT ![p] = "tr_lock"]
                    /\ loc' = [loc EXCEPT ![p] =
                                 [@ EXCEPT !.idx = @ + 1, !.errs = errs, !.art = NoArt,
                                           !.watch = NoChan, !.eff = Eff(p, w, e)]]
                    /\ Step(p, w, e)
                    /\ UNCHANGED call

\* TriggerRebuildLookup as it would be if the trigger file were written before
\* the channel is looked up
TriggerRebuildLookupWriteFirst(p) ==
    /\ pc[p] = "tr_lookup"
    /\ UNCHANGED <<artifacts, watches, chans, receiving>>
    /\ \E getwdOk \in BOOLEAN :
         IF Cur(p) \notin DOMAIN artifacts
         THEN UNCHANGED fs /\ TriggerRebuildReturn(p, "artifact not found", NoFile, NoEvent)
         ELSE LET art == artifacts[Cur(p)]
                  wp == WatchPath(art.workspace, getwdOk)
              IN IF wp.err # "nil"
                 THEN /\ UNCHANGED fs
                      /\ TriggerRebuildReturn(p, "failed to get watch path", NoFile, NoEvent)
                 ELSE IF wp.path \notin DOMAIN watches
                 THEN /\ fs' = [fs EXCEPT ![art.triggerFile] = [size |-> 1]]
                      /\ TriggerRebuildReturn(p, "watch not found", art.triggerFile, NoEvent)
                 ELSE /\ UNCHANGED fs
                      /\ loc' = [loc EXCEPT ![p] = [@ EXCEPT !.art = art,
                                                             !.watch = watches[wp.path]]]
                      /\ pc' = [pc EXCEPT ![p] = "tr_write"]
                      /\ Step(p, NoFile, NoEvent)
                      /\ UNCHANGED <<mtx, call>>

\* TriggerRebuildLookup as it would be if looking up an unknown name left an
\* empty record behind
TriggerRebuildLookupInsert(p) ==
    /\ pc[p] = "tr_lookup"
    /\ UNCHANGED <<watches, fs, chans, receiving>>
    /\ \E getwdOk \in BOOLEAN :
         IF Cur(p) \notin DOMAIN artifacts
         THEN /\ artifacts' = Put(artifacts, Cur(p), NoArt)
              /\ TriggerRebuildReturn(p, "artifact not found", NoFile, NoEvent)
         ELSE LET art == artifacts[Cur(p)]
                  wp == WatchPath(art.workspace, getwdOk)
              IN /\ UNCHANGED artifacts
                 /\ IF wp.err # "nil"
                    THEN TriggerRebuildReturn(p, "failed to get watch path", NoFile, NoEvent)
                    ELSE IF wp.path \notin DOMAIN watches
                    THEN TriggerRebuildReturn(p, "watch not found", NoFile, NoEvent)
                    ELSE /\ loc' = [loc EXCEPT ![p] = [@ EXCEPT !.art = art,
                                                                !.watch = watches[wp.path]]]
                         /\ pc' = [pc EXCEPT ![p] = "tr_write"]
                         /\ Step(p, NoFile, NoEvent)
                         /\ UNCHANGED <<mtx, call>>

\* lines 133-146: the artifact, its watch path, the channel of that path
TriggerRebuildLookup(p) ==
    /\ pc[p] = "tr_lookup"
    /\ UNCHANGED <<artifacts, watches, fs, chans, receiving>>
    /\ \E getwdOk \in BOOLEAN :
         IF Cur(p) \notin DOMAIN artifacts
         THEN TriggerRebuildReturn(p, "artifact not found", NoFile, NoEvent)
         ELSE LET art == artifacts[Cur(p)]
                  wp == WatchPath(art.workspace, getwdOk)
              IN IF wp.err # "nil"
                 THEN TriggerRebuildReturn(p, "failed to get watch path", NoFile, NoEvent)
                 ELSE IF wp.path \notin DOMAIN watches
                 THEN TriggerRebuildReturn(p, "watch not found", NoFile, NoEvent)
                 ELSE /\ loc' = [loc EXCEPT ![p] = [@ EXCEPT !.art = art,
                                                             !.watch = watches[wp.path]]]
                      /\ pc' = [pc EXCEPT ![p] = "tr_write"]
                      /\ Step(p, NoFile, NoEvent)
                      /\ UNCHANGED <<mtx, call>>

\* TriggerRebuildWrite as it would be if an artifact whose trigger file cannot
\* be written were dropped from the registry
TriggerRebuildWriteDrop(p) ==
    /\ pc[p] = "tr_write"
    /\ UNCHANGED <<watches, chans, receiving>>
    /\ \E ok \in BOOLEAN :
         IF ok
         THEN LET f == loc[p].art.triggerFile
              IN /\ fs' = [fs EXCEPT ![f] = [size |-> 1]]
                 /\ pc' = [pc EXCEPT ![p] = "tr_send"]
                 /\ loc' = [loc EXCEPT ![p] = [@ EXCEPT !.eff = Eff(p, f, NoEvent)]]
                 /\ Step(p, f, NoEvent)
                 /\ UNCHANGED <<mtx, call, artifacts>>
         ELSE /\ UNCHANGED fs
              /\ artifacts' = [n \in DOMAIN artifacts \ {loc[p].art.imageName} |-> artifacts[n]]
              /\ TriggerRebuildReturn(p, "failed to write to trigger file", NoFile, NoEvent)

\* TriggerRebuildWrite as it would be if the mutex were released after the
\* write, the send being made outside the critical section
TriggerRebuildWriteUnlock(p) ==
    /\ pc[p] = "tr_write"
    /\ UNCHANGED <<artifacts, watches, chans, receiving>>
    /\ \E ok \in BOOLEAN :
         IF ok
         THEN LET f == loc[p].art.triggerFile
              IN /\ fs' = [fs EXCEPT ![f] = [size |-> 1]]
                 /\ pc' = [pc EXCEPT ![p] = "tr_send"]
                 /\ loc' = [loc EXCEPT ![p] = [@ EXCEPT !.eff = Eff(p, f, NoEvent)]]
                 /\ Step(p, f, NoEvent)
                 /\ Unlock(p)
                 /\ UNCHANGED call
         ELSE /\ UNCHANGED fs
              /\ TriggerRebuildReturn(p, "failed to write to trigger file", NoFile, NoEvent)

\* TriggerRebuildWrite as it would be if a failed write were ignored and the
\* event sent all the same
TriggerRebuildWriteIgnore(p) ==
    /\ pc[p] = "tr_write"
    /\ UNCHANGED <<artifacts, watches, chans, receiving>>
    /\ \E ok \in BOOLEAN :
         IF ok
         THEN LET f == loc[p].art.triggerFile
              IN /\ fs' = [fs EXCEPT ![f] = [size |-> 1]]
                 /\ pc' = [pc EXCEPT ![p] = "tr_send"]
                 /\ loc' = [loc EXCEPT ![p] = [@ EXCEPT !.eff = Eff(p, f, NoEvent)]]
                 /\ Step(p, f, NoEvent)
                 /\ UNCHANGED <<mtx, call>>
         ELSE /\ UNCHANGED fs
              /\ pc' = [pc EXCEPT ![p] = "tr_send"]
              /\ Step(p, NoFile, NoEvent)
              /\ UNCHANGED <<mtx, call, loc>>

\* lines 148-151; os.WriteFile either fails or leaves one byte in the file
TriggerRebuildWrite(p) ==
    /\ pc[p] = "tr_write"
    /\ UNCHANGED <<artifacts, watches, chans, receiving>>
    /\ \E ok \in BOOLEAN :
         IF ok
         THEN LET f == loc[p].art.triggerFile
              IN /\ fs' = [fs EXCEPT ![f] = [size |-> 1]]
                 /\ pc' = [pc EXCEPT ![p] = "tr_send"]
                 /\ loc' = [loc EXCEPT ![p] = [@ EXCEPT !.eff = Eff(p, f, NoEvent)]]
                 /\ Step(p, f, NoEvent)
                 /\ UNCHANGED <<mtx, call>>
         ELSE /\ UNCHANGED fs
              /\ TriggerRebuildReturn(p, "failed to write to trigger file", NoFile, NoEvent)

\* FakeEventInfo as it would be if the path were left unset
FakeEventInfoNoPath(c, path) == [chan |-> c, path |-> NoFile]

\* fakeEventInfo, lines 47-61: the event that names path, sent on channel c
FakeEventInfo(c, path) == [chan |-> c, path |-> path]

\* channel c can take an event now: its consumer is blocked in a receive,
\* or its buffer has room
CanSend(c) == c \in receiving \/ Len(chans[c]) < Cap(c)

\* TriggerRebuildSend as it would be if the send did not block: an event the
\* channel cannot accept at once is dropped
TriggerRebuildSendDrop(p) ==
    /\ pc[p] = "tr_send"
    /\ UNCHANGED <<artifacts, watches, fs>>
    /\ LET c == loc[p].watch
           e == FakeEventInfo(c, loc[p].art.triggerFile)
       IN IF CanSend(c)
          THEN /\ IF c \in receiving
                  THEN /\ receiving' = receiving \ {c}
                       /\ UNCHANGED chans
                  ELSE /\ chans' = [chans EXCEPT ![c] = Append(@, e.path)]
                       /\ UNCHANGED receiving
               /\ TriggerRebuildReturn(p, "nil", NoFile, e)
          ELSE /\ UNCHANGED <<chans, receiving>>
               /\ TriggerRebuildReturn(p, "nil", NoFile, NoEvent)

\* lines 153-155: the send blocks until the channel accepts the event
TriggerRebuildSend(p) ==
    /\ pc[p] = "tr_send"
    /\ UNCHANGED <<artifacts, watches, fs>>
    /\ LET c == loc[p].watch
           e == FakeEventInfo(c, loc[p].art.triggerFile)
       IN /\ CanSend(c)
          /\ IF c \in receiving
             THEN /\ receiving' = receiving \ {c}
                  /\ UNCHANGED chans
             ELSE /\ chans' = [chans EXCEPT ![c] = Append(@, e.path)]
                  /\ UNCHANGED receiving
          /\ TriggerRebuildReturn(p, "nil", NoFile, e)

(***************************************************************************)
(* GetArtifacts, lines 202-207, called directly or by TriggerRebuilds.     *)
(***************************************************************************)
CallGetArtifacts(p) ==
    Enter(p, [NoCall EXCEPT !.op = "GetArtifacts"], "ga_lock")

\* the orders in which the elements of set S can be listed
Orders(S) ==
    {s \in [1..Cardinality(S) -> S] : \A i, j \in DOMAIN s : i # j => s[i] # s[j]}

Range(s) == {s[i] : i \in DOMAIN s}

\* maps.Keys iterates the map in an unspecified order; the result of a
\* direct call is recorded as the set of its elements
GetArtifactsRead(p) ==
    /\ pc[p] = "ga_read"
    /\ UNCHANGED <<artifacts, watches, fs, chans, receiving>>
    /\ Unlock(p)
    /\ \E keys \in Orders(DOMAIN artifacts) :
         IF call[p].op = "GetArtifacts"
         THEN Return(p, [NoRet EXCEPT !.err = "nil", !.list = Range(keys)], NoFile, NoEvent)
         ELSE /\ loc' = [loc EXCEPT ![p] = [@ EXCEPT !.snapshot = keys]]
              /\ pc' = [pc EXCEPT ![p] = "trs_match"]
              /\ Step(p, NoFile, NoEvent)
              /\ UNCHANGED call

(***************************************************************************)
(* TriggerRebuilds, lines 72-110.                                          *)
(***************************************************************************)
\* line 73: the call starts with r.GetArtifacts()
CallTriggerRebuilds(p, expr) ==
    Enter(p, [NoCall EXCEPT !.op = "TriggerRebuilds", !.expr = expr], "ga_lock")

\* Matching as it would be if a pattern also matched the names it is a
\* prefix of
MatchingPrefix(pat, names) ==
    SelectSeq(names, LAMBDA n : \/ Match(pat, n)
                                \/ Len(n) >= Len(pat) /\ SubSeq(n, 1, Len(pat)) = pat)

\* the elements of sequence names that pattern pat matches, in order
Matching(pat, names) == SelectSeq(names, LAMBDA n : Match(pat, n))

RECURSIVE MatchedArtifacts(_, _, _, _)
\* lines 80-91: the patterns are compiled and matched one after the other,
\* from pats[i] on; acc is matchedArtifacts so far
MatchedArtifacts(pats, i, names, acc) ==
    IF i > Len(pats) THEN [err |-> "nil", pat |-> <<>>, matched |-> acc]
    ELSE IF ~CompileOk(pats[i])
    THEN [err |-> "invalid pattern", pat |-> pats[i], matched |-> <<>>]
    ELSE MatchedArtifacts(pats, i + 1, names, acc \o Matching(pats[i], names))

\* TriggerRebuildsMatch as it would be if an expression that is one plain
\* name were taken as the name to trigger, without looking at the snapshot
TriggerRebuildsMatchLiteral(p) ==
    /\ pc[p] = "trs_match"
    /\ UNCHANGED <<mtx, artifacts, watches, fs, chans, receiving>>
    /\ LET pats == Patterns(call[p].expr)
           plain == /\ Len(pats) = 1
                    /\ \A i \in 1..Len(pats[1]) : pats[1][i] \notin {"*", "?", "["}
           m == IF plain THEN [err |-> "nil", pat |-> <<>>, matched |-> <<pats[1]>>]
                ELSE MatchedArtifacts(pats, 1, loc[p].snapshot, <<>>)
       IN IF m.err # "nil"
          THEN Return(p, [NoRet EXCEPT !.err = m.err, !.pat = m.pat], NoFile, NoEvent)
          ELSE IF m.matched = <<>>
          THEN Return(p, [NoRet EXCEPT !.err = "no artifacts matched pattern",
                                      !.pat = call[p].expr], NoFile, NoEvent)
          ELSE /\ loc' = [loc EXCEPT ![p] = [@ EXCEPT !.matched = m.matched, !.idx = 1, !.snapshot = <<>>]]
               /\ pc' = [pc EXCEPT ![p] = "tr_lock"]
               /\ Step(p, NoFile, NoEvent)
               /\ UNCHANGED call

\* TriggerRebuildsMatch as it would be if the patterns were matched against
\* the registry as it is when they are matched, not against the snapshot
TriggerRebuildsMatchCurrent(p) ==
    /\ pc[p] = "trs_match"
    /\ UNCHANGED <<mtx, artifacts, watches, fs, chans, receiving>>
    /\ LET now == CHOOSE s \in Orders(DOMAIN artifacts) : TRUE
           m == MatchedArtifacts(Patterns(call[p].expr), 1, now, <<>>)
       IN IF m.err # "nil"
          THEN Return(p, [NoRet EXCEPT !.err = m.err, !.pat = m.pat], NoFile, NoEvent)
          ELSE IF m.matched = <<>>
          THEN Return(p, [NoRet EXCEPT !.err = "no artifacts matched pattern",
                                      !.pat = call[p].expr], NoFile, NoEvent)
          ELSE /\ loc' = [loc EXCEPT ![p] = [@ EXCEPT !.matched = m.matched, !.idx = 1, !.snapshot = <<>>]]
               /\ pc' = [pc EXCEPT ![p] = "tr_lock"]
               /\ Step(p, NoFile, NoEvent)
               /\ UNCHANGED call

\* TriggerRebuildsMatch as it would be if a name matched by several patterns
\* were attempted once
TriggerRebuildsMatchDedup(p) ==
    /\ pc[p] = "trs_match"
    /\ UNCHANGED <<mtx, artifacts, watches, fs, chans, receiving>>
    /\ LET m == MatchedArtifacts(Patterns(call[p].expr), 1, loc[p].snapshot, <<>>)
           \* sequence s without the repetitions of its elements
           Dedup(s) ==
               LET keep == {i \in 1..Len(s) : \A j \in 1..(i-1) : s[j] # s[i]}
               IN [k \in 1..Cardinality(keep) |->
                     s[CHOOSE i \in keep : Cardinality({j \in keep : j < i}) = k - 1]]
       IN IF m.err # "nil"
          THEN Return(p, [NoRet EXCEPT !.err = m.err, !.pat = m.pat], NoFile, NoEvent)
          ELSE IF m.matched = <<>>
          THEN Return(p, [NoRet EXCEPT !.err = "no artifacts matched pattern",
                                      !.pat = call[p].expr], NoFile, NoEvent)
          ELSE /\ loc' = [loc EXCEPT ![p] = [@ EXCEPT !.matched = Dedup(m.matched), !.idx = 1, !.snapshot = <<>>]]
               /\ pc' = [pc EXCEPT ![p] = "tr_lock"]
               /\ Step(p, NoFile, NoEvent)
               /\ UNCHANGED call

\* TriggerRebuildsMatch as it would be without the check of line 95: an empty
\* match is an empty loop, which succeeds
TriggerRebuildsMatchNoCheck(p) ==
    /\ pc[p] = "trs_match"
    /\ UNCHANGED <<mtx, artifacts, watches, fs, chans, receiving>>
    /\ LET m == MatchedArtifacts(Patterns(call[p].expr), 1, loc[p].snapshot, <<>>)
       IN IF m.err # "nil"
          THEN Return(p, [NoRet EXCEPT !.err = m.err, !.pat = m.pat], NoFile, NoEvent)
          ELSE IF m.matched = <<>>
          THEN Return(p, Aggregate(<<>>), NoFile, NoEvent)
          ELSE /\ loc' = [loc EXCEPT ![p] = [@ EXCEPT !.matched = m.matched, !.idx = 1, !.snapshot = <<>>]]
               /\ pc' = [pc EXCEPT ![p] = "tr_lock"]
               /\ Step(p, NoFile, NoEvent)
               /\ UNCHANGED call

\* lines 75-100, up to the first call of TriggerRebuild
TriggerRebuildsMatch(p) ==
    /\ pc[p] = "trs_match"
    /\ UNCHANGED <<mtx, artifacts, watches, fs, chans, receiving>>
    /\ LET m == MatchedArtifacts(Patterns(call[p].expr), 1, loc[p].snapshot, <<>>)
       IN IF m.err # "nil"
          THEN Return(p, [NoRet EXCEPT !.err = m.err, !.pat = m.pat], NoFile, NoEvent)
          ELSE IF m.matched = <<>>
          THEN Return(p, [NoRet EXCEPT !.err = "no artifacts matched pattern",
                                      !.pat = call[p].expr], NoFile, NoEvent)
          ELSE /\ loc' = [loc EXCEPT ![p] = [@ EXCEPT !.matched = m.matched, !.idx = 1, !.snapshot = <<>>]]
               /\ pc' = [pc EXCEPT ![p] = "tr_lock"]
               /\ Step(p, NoFile, NoEvent)
               /\ UNCHANGED call

(***************************************************************************)
(* GetArtifactTriggerFiles and GetWatches, lines 184-200.                  *)
(***************************************************************************)
CallGetArtifactTriggerFiles(p) ==
    Enter(p, [NoCall EXCEPT !.op = "GetArtifactTriggerFiles"], "tf_lock")

\* the result map is recorded as its set of <<name, file>> pairs
GetArtifactTriggerFilesRead(p) ==
    /\ pc[p] = "tf_read"
    /\ UNCHANGED <<artifacts, watches, fs, chans, receiving>>
    /\ Unlock(p)
    /\ Return(p, [NoRet EXCEPT !.err = "nil",
                     !.tf = {<<k, artifacts[k].triggerFile>> : k \in DOMAIN artifacts}],
              NoFile, NoEvent)

CallGetWatches(p) ==
    Enter(p, [NoCall EXCEPT !.op = "GetWatches"], "gw_lock")

\* GetWatchesRead as it would be if only the watch paths that some artifact's
\* workspace derives were listed
GetWatchesReadUsed(p) ==
    /\ pc[p] = "gw_read"
    /\ UNCHANGED <<artifacts, watches, fs, chans, receiving>>
    /\ Unlock(p)
    /\ Return(p, [NoRet EXCEPT !.err = "nil",
                     !.list = {q \in DOMAIN watches :
                                 \E n \in DOMAIN artifacts :
                                    q = WatchPath(artifacts[n].workspace, TRUE).path}],
              NoFile, NoEvent)

\* the result slice is recorded as the set of its elements
GetWatchesRead(p) ==
    /\ pc[p] = "gw_read"
    /\ UNCHANGED <<artifacts, watches, fs, chans, receiving>>
    /\ Unlock(p)
    /\ Return(p, [NoRet EXCEPT !.err = "nil", !.list = DOMAIN watches], NoFile, NoEvent)

(***************************************************************************)
(* WatchPath called by itself, lines 112-127: it takes no lock and touches *)
(* no field of the resolver.                                               *)
(***************************************************************************)
CallWatchPath(p, workspace) ==
    /\ pc[p] = "idle"
    /\ \E getwdOk \in BOOLEAN :
          LET r == WatchPath(workspace, getwdOk)
          IN out' = [NoOut EXCEPT !.by = p,
                       !.ret = [NoRet EXCEPT !.call = [NoCall EXCEPT !.op = "WatchPath",
                                                                     !.ws = workspace],
                                             !.err = r.err, !.path = r.path]]
    /\ UNCHANGED <<mtx, artifacts, watches, fs, chans, receiving, pc, call, loc>>

(***************************************************************************)
(* The receiving end of a watch channel (the build pipeline).              *)
(***************************************************************************)
\* the consumer of a buffered channel takes the oldest event
ConsumerReceive(c) ==
    /\ chans[c] # <<>>
    /\ chans' = [chans EXCEPT ![c] = Tail(@)]
    /\ out' = NoOut
    /\ UNCHANGED <<mtx, artifacts, watches, fs, receiving, pc, call, loc>>

\* the consumer of an unbuffered channel blocks in a receive
ConsumerWait(c) ==
    /\ Cap(c) = 0
    /\ c \notin receiving
    /\ receiving' = receiving \cup {c}
    /\ out' = NoOut
    /\ UNCHANGED <<mtx, artifacts, watches, fs, chans, pc, call, loc>>

(***************************************************************************)
(* The specification of the registry: two concurrent callers of            *)
(* GetDependencies, AddWatch, TriggerRebuild and the list operations, and  *)
(* the consumers of the channels.                                          *)
(***************************************************************************)
\* the artifacts the pipeline asks about: image name, workspace
Inquiries ==
    {<<frontend, frontendWorkspace>>, <<backend, frontendWorkspace>>,
     <<frontend, absWorkspace>>}

WatchPaths ==
    {WatchPath(frontendWorkspace, TRUE).path, WatchPath(absWorkspace, TRUE).path}

TriggerNames == {frontend, backend, nonexistent}

\* the event kinds a caller of AddWatch asks for
EventKinds == {NoEvents, <<"notify.Write">>}

Next ==
    \/ \E p \in Procs, a \in Inquiries : CallGetDependencies(p, a[1], a[2])
    \/ \E p \in Procs, path \in WatchPaths, c \in Channels, events \in EventKinds :
         CallAddWatch(p, path, c, events)
    \/ \E p \in Procs, name \in TriggerNames : CallTriggerRebuild(p, name)
    \/ \E p \in Procs : CallGetArtifacts(p)
    \/ \E p \in Procs : CallGetArtifactTriggerFiles(p)
    \/ \E p \in Procs : CallGetWatches(p)
    \/ \E p \in Procs : GetDependenciesLookup(p)
    \/ \E p \in Procs : GetDependenciesCreate(p)
    \/ \E p \in Procs : AddWatchStore(p)
    \/ \E p \in Procs : TriggerRebuildLookup(p)
    \/ \E p \in Procs : TriggerRebuildWrite(p)
    \/ \E p \in Procs : TriggerRebuildSend(p)
    \/ \E p \in Procs : GetArtifactsRead(p)
    \/ \E p \in Procs : GetArtifactTriggerFilesRead(p)
    \/ \E p \in Procs : GetWatchesRead(p)
    \/ \E c \in Channels : ConsumerReceive(c)
    \/ \E c \in Channels : ConsumerWait(c)

Spec == Init /\ [][Next]_vars

(***************************************************************************)
(* The specification of the pattern fan-out: one caller registers the      *)
(* artifacts and the watches of TestTriggerRebuilds, on a buffered         *)
(* channel, and calls TriggerRebuilds.                                     *)
(***************************************************************************)
FanoutProcs == {"p1"}

FanoutInquiries ==
    {<<frontend, frontendWorkspace>>, <<backend, backendWorkspace>>,
     <<backendApi, backendWorkspace>>}

FanoutWatchPaths ==
    {WatchPath(frontendWorkspace, TRUE).path, WatchPath(backendWorkspace, TRUE).path}

FanoutChannels == {"buf"}

malformed == <<"[","i","n","v","a","l","i","d">>

ExprFrontend == frontend
ExprBackendStar == backend \o <<"*">>
ExprFrontendBackend == frontend \o <<",">> \o backend
ExprSpaced == <<" ">> \o frontend \o <<" ", ",", " ">> \o backend \o <<" ">>
ExprStar == <<"*">>
ExprNonexistent == nonexistent
ExprMalformed == malformed
ExprFrontendMalformed == frontend \o <<",">> \o malformed
ExprMalformedFrontend == malformed \o <<",">> \o frontend
ExprFrontendFrontStar == frontend \o <<",", "f", "r", "o", "n", "t", "*">>
ExprFrontendTwice == frontend \o <<",">> \o frontend
ExprBackendAnyApi == backend \o <<"?", "a", "p", "i">>

Expressions ==
    {ExprFrontend, ExprBackendStar, ExprFrontendBackend, ExprSpaced, ExprStar,
     ExprNonexistent, ExprMalformed, ExprFrontendMalformed, ExprMalformedFrontend,
     ExprFrontendFrontStar, ExprFrontendTwice, ExprBackendAnyApi}

NextFanout ==
    \/ \E p \in FanoutProcs, a \in FanoutInquiries : CallGetDependencies(p, a[1], a[2])
    \/ \E p \in FanoutProcs, path \in FanoutWatchPaths, c \in FanoutChannels :
         CallAddWatch(p, path, c, NoEvents)
    \/ \E p \in FanoutProcs, expr \in Expressions : CallTriggerRebuilds(p, expr)
    \/ \E p \in FanoutProcs : Lock(p)
    \/ \E p \in FanoutProcs : GetDependenciesLookup(p)
    \/ \E p \in FanoutProcs : GetDependenciesCreate(p)
    \/ \E p \in FanoutProcs : AddWatchStore(p)
    \/ \E p \in FanoutProcs : GetArtifactsRead(p)
    \/ \E p \in FanoutProcs : TriggerRebuildsMatch(p)
    \/ \E p \in FanoutProcs : TriggerRebuildLookup(p)
    \/ \E p \in FanoutProcs : TriggerRebuildWrite(p)
    \/ \E p \in FanoutProcs : TriggerRebuildSend(p)
    \/ \E c \in FanoutChannels : ConsumerReceive(c)

SpecFanout == Init /\ [][NextFanout]_vars

(***************************************************************************)
(* The specification of the watch paths: one caller derives watch paths,   *)
(* registers artifacts with relative and absolute workspaces, registers    *)
(* watches and triggers.                                                   *)
(***************************************************************************)
PathProcs == {"p1"}

relWorkspace == <<".", "rel">>

Workspaces == {frontendWorkspace, relWorkspace, absWorkspace}

PathInquiries == {<<frontend, relWorkspace>>, <<backend, absWorkspace>>}

PathWatchPaths == {WatchPath(w, TRUE).path : w \in Workspaces}

PathTriggerNames == {frontend, backend}

NextPath ==
    \/ \E p \in PathProcs, w \in Workspaces : CallWatchPath(p, w)
    \/ \E p \in PathProcs, a \in PathInquiries : CallGetDependencies(p, a[1], a[2])
    \/ \E p \in PathProcs, path \in PathWatchPaths, c \in Channels :
         CallAddWatch(p, path, c, NoEvents)
    \/ \E p \in PathProcs, name \in PathTriggerNames : CallTriggerRebuild(p, name)
    \/ \E p \in PathProcs : GetDependenciesLookup(p)
    \/ \E p \in PathProcs : GetDependenciesCreate(p)
    \/ \E p \in PathProcs : AddWatchStore(p)
    \/ \E p \in PathProcs : TriggerRebuildLookup(p)
    \/ \E p \in PathProcs : TriggerRebuildWrite(p)
    \/ \E p \in PathProcs : TriggerRebuildSend(p)
    \/ \E c \in Channels : ConsumerReceive(c)
    \/ \E c \in Channels : ConsumerWait(c)

SpecPath == Init /\ [][NextPath]_vars

(***************************************************************************)
(* The specification of the fan-out among other calls: two concurrent      *)
(* callers of every operation, TriggerRebuilds included, over two          *)
(* artifacts that share a workspace and one buffered channel.              *)
(***************************************************************************)
RaceInquiries == {<<frontend, frontendWorkspace>>, <<backend, frontendWorkspace>>}

RaceWatchPaths == {WatchPath(frontendWorkspace, TRUE).path}

RaceChannels == {"buf"}

RaceTriggerNames == {frontend}

RaceExpressions == {ExprStar, ExprFrontend}

NextRace ==
    \/ \E p \in Procs, a \in RaceInquiries : CallGetDependencies(p, a[1], a[2])
    \/ \E p \in Procs, path \in RaceWatchPaths, c \in RaceChannels :
         CallAddWatch(p, path, c, NoEvents)
    \/ \E p \in Procs, name \in RaceTriggerNames : CallTriggerRebuild(p, name)
    \/ \E p \in Procs, expr \in RaceExpressions : CallTriggerRebuilds(p, expr)
    \/ \E p \in Procs : CallGetArtifacts(p)
    \/ \E p \in Procs : CallGetArtifactTriggerFiles(p)
    \/ \E p \in Procs : CallGetWatches(p)
    \/ \E p \in Procs : Lock(p)
    \/ \E p \in Procs : GetDependenciesLookup(p)
    \/ \E p \in Procs : GetDependenciesCreate(p)
    \/ \E p \in Procs : AddWatchStore(p)
    \/ \E p \in Procs : GetArtifactsRead(p)
    \/ \E p \in Procs : TriggerRebuildsMatch(p)
    \/ \E p \in Procs : TriggerRebuildLookup(p)
    \/ \E p \in Procs : TriggerRebuildWrite(p)
    \/ \E p \in Procs : TriggerRebuildSend(p)
    \/ \E p \in Procs : GetArtifactTriggerFilesRead(p)
    \/ \E p \in Procs : GetWatchesRead(p)
    \/ \E c \in RaceChannels : ConsumerReceive(c)

SpecRace == Init /\ [][NextRace]_vars

(***************************************************************************)
(* The specification of the pipeline: caller p1 registers frontend and its *)
(* watch, on the unbuffered channel, and triggers it, directly or twice by *)
(* one TriggerRebuilds; the build pipeline p2 receives from that channel   *)
(* and, after each event and before its next receive, asks for the         *)
(* dependencies of frontend.                                               *)
(***************************************************************************)
Operator == "p1"

Pipeline == "p2"

PipelineChannel == "unbuf"

\* the pipeline blocks in a receive from its channel
PipelineWait ==
    /\ pc[Pipeline] = "idle"
    /\ PipelineChannel \notin receiving
    /\ receiving' = receiving \cup {PipelineChannel}
    /\ pc' = [pc EXCEPT ![Pipeline] = "pl_recv"]
    /\ out' = NoOut
    /\ UNCHANGED <<mtx, artifacts, watches, fs, chans, call, loc>>

\* the pipeline has received an event: it calls GetDependencies and arrives
\* at its r.mtx.Lock()
PipelineInquire ==
    /\ pc[Pipeline] = "pl_recv"
    /\ PipelineChannel \notin receiving
    /\ pc' = [pc EXCEPT ![Pipeline] = "gd_lock"]
    /\ call' = [call EXCEPT ![Pipeline] = GetDependenciesOf(frontend, frontendWorkspace)]
    /\ loc' = [loc EXCEPT ![Pipeline] = NoLoc]
    /\ out' = NoOut
    /\ UNCHANGED <<mtx, artifacts, watches, fs, chans, receiving>>

NextPipeline ==
    \/ CallGetDependencies(Operator, frontend, frontendWorkspace)
    \/ CallAddWatch(Operator, WatchPath(frontendWorkspace, TRUE).path, PipelineChannel, NoEvents)
    \/ CallTriggerRebuild(Operator, frontend)
    \/ CallTriggerRebuilds(Operator, ExprFrontendTwice)
    \/ PipelineWait
    \/ PipelineInquire
    \/ \E p \in Procs : Lock(p)
    \/ \E p \in Procs : GetDependenciesLookup(p)
    \/ GetDependenciesCreate(Operator)
    \/ AddWatchStore(Operator)
    \/ GetArtifactsRead(Operator)
    \/ TriggerRebuildsMatch(Operator)
    \/ TriggerRebuildLookup(Operator)
    \/ TriggerRebuildWrite(Operator)
    \/ TriggerRebuildSend(Operator)

SpecPipeline == Init /\ [][NextPipeline]_vars

(***************************************************************************)
(* The specification of callers that wait for the mutex: a call starts,    *)
(* then blocks in r.mtx.Lock() until the mutex is free.                    *)
(***************************************************************************)
WaitInquiries ==
    {<<frontend, frontendWorkspace>>, <<frontend, absWorkspace>>,
     <<backend, frontendWorkspace>>}

WaitWatchPaths == {WatchPath(frontendWorkspace, TRUE).path}

WaitTriggerNames == {frontend, backend}

NextWait ==
    \/ \E p \in Procs, a \in WaitInquiries : StartGetDependencies(p, a[1], a[2])
    \/ \E p \in Procs, path \in WaitWatchPaths, c \in Channels : StartAddWatch(p, path, c, NoEvents)
    \/ \E p \in Procs, name \in WaitTriggerNames : StartTriggerRebuild(p, name)
    \/ \E p \in Procs : Lock(p)
    \/ \E p \in Procs : GetDependenciesLookup(p)
    \/ \E p \in Procs : GetDependenciesCreate(p)
    \/ \E p \in Procs : AddWatchStore(p)
    \/ \E p \in Procs : TriggerRebuildLookup(p)
    \/ \E p \in Procs : TriggerRebuildWrite(p)
    \/ \E p \in Procs : TriggerRebuildSend(p)
    \/ \E c \in Channels : ConsumerReceive(c)
    \/ \E c \in Channels : ConsumerWait(c)

SpecWait == Init /\ [][NextWait]_vars

\* a caller that has started goes on: each step of a method is taken once it
\* can be, and sync.Mutex hands the mutex to a caller that keeps waiting for
\* it (its starvation mode); the consumers keep receiving
FairWait ==
    /\ \A p \in Procs :
          /\ SF_vars(Lock(p))
          /\ WF_vars(GetDependenciesLookup(p))
          /\ WF_vars(GetDependenciesCreate(p))
          /\ WF_vars(AddWatchStore(p))
          /\ WF_vars(TriggerRebuildLookup(p))
          /\ WF_vars(TriggerRebuildWrite(p))
          /\ WF_vars(TriggerRebuildSend(p))
    /\ \A c \in Channels : WF_vars(ConsumerReceive(c)) /\ WF_vars(ConsumerWait(c))

SpecWaitFair == SpecWait /\ FairWait

(***************************************************************************)
(* What a step is, for the properties below.                               *)
(***************************************************************************)
\* the call of p returns in this step
Returns(p) == pc[p] # "idle" /\ pc'[p] = "idle"

\* the direct TriggerRebuild call of p returns in this step
TriggerRebuildReturns(p) == call[p].op = "TriggerRebuild" /\ Returns(p)

\* channel c accepts an event in this step
Gain(c) == Len(chans'[c]) > Len(chans[c]) \/ (c \in receiving /\ c \notin receiving')

\* in this step channel c accepts exactly the event that names file f, and
\* no other channel accepts anything
Accepts(c, f) ==
    /\ IF c \in receiving
       THEN receiving' = receiving \ {c} /\ chans' = chans
       ELSE receiving' = receiving /\ chans' = [chans EXCEPT ![c] = Append(@, f)]
    /\ out'.event = [chan |-> c, path |-> f]

\* the watch path derived from the workspace of a registered artifact
WatchOf(name) == WatchPath(artifacts[name].workspace, TRUE).path

Watched(name) == name \in DOMAIN artifacts /\ WatchOf(name) \in DOMAIN watches

Unwatched(name) == name \in DOMAIN artifacts /\ WatchOf(name) \notin DOMAIN watches

(***************************************************************************)
(* C1.  However GetDependencies calls for one image name overlap, exactly  *)
(* one trigger file is created and one record stored for the name, and     *)
(* every caller gets the path of that file: the files created are exactly  *)
(* the trigger files of the records, one each, and a call that returns     *)
(* without error returns the one-element list of its record's file.        *)
(***************************************************************************)
C1_ExactlyOneTriggerFile ==
    /\ Len(fs) = Cardinality(DOMAIN artifacts)
    /\ \A n \in DOMAIN artifacts :
         artifacts[n].imageName = n /\ artifacts[n].triggerFile \in 1..Len(fs)
    /\ \A n, m \in DOMAIN artifacts :
         n # m => artifacts[n].triggerFile # artifacts[m].triggerFile
    /\ (out.ret.call.op = "GetDependencies" /\ out.ret.err = "nil") =>
         /\ out.ret.call.name \in DOMAIN artifacts
         /\ out.ret.files = <<artifacts[out.ret.call.name].triggerFile>>

\* a call that started when its name had no record returns the file that a
\* concurrent call created in the meantime
C1_Witness ==
    /\ out.ret.call.op = "GetDependencies"
    /\ out.ret.call.fresh
    /\ out.ret.err = "nil"
    /\ ~out.ret.eff.maps
    /\ out.ret.files = <<artifacts[out.ret.call.name].triggerFile>>

(***************************************************************************)
(* C2.  GetDependencies is idempotent per image name.  A call for a name   *)
(* without a record that returns without error has created one file and    *)
(* one record and returns the one-element list of that file; a call for a  *)
(* name with a record returns the one-element list of the record's file    *)
(* and creates nothing; and no step of any operation changes or removes    *)
(* the triggerFile of a record.                                            *)
(***************************************************************************)
GetDependenciesReturnsRight(p) ==
    LET name == call[p].name IN
    (call[p].op = "GetDependencies" /\ Returns(p)) =>
       IF name \in DOMAIN artifacts
       THEN /\ out'.ret.err = "nil"
            /\ out'.ret.files = <<artifacts[name].triggerFile>>
            /\ UNCHANGED <<artifacts, fs>>
       ELSE \/ /\ out'.ret.err = "nil"
               /\ Len(fs') = Len(fs) + 1
               /\ DOMAIN artifacts' = DOMAIN artifacts \cup {name}
               /\ artifacts'[name].triggerFile = Len(fs')
               /\ out'.ret.files = <<Len(fs')>>
            \/ /\ out'.ret.err = "failed to create temp file"
               /\ UNCHANGED <<artifacts, fs>>

TriggerFilesKept ==
    \A n \in DOMAIN artifacts :
        n \in DOMAIN artifacts' /\ artifacts'[n].triggerFile = artifacts[n].triggerFile

C2_Idempotent ==
    [][TriggerFilesKept /\ \A p \in Procs : GetDependenciesReturnsRight(p)]_vars

\* a repeated inquiry returns the file of its record after a watch was
\* registered and a trigger has written the file and sent its event
C2_Witness ==
    /\ out.ret.call.op = "GetDependencies"
    /\ out.ret.err = "nil"
    /\ ~out.ret.eff.maps
    /\ watches # EmptyMap
    /\ fs[out.ret.files[1]].size = 1

(***************************************************************************)
(* C3.  A channel accepts an event only in the step in which a             *)
(* TriggerRebuild sends it and returns nil, and that step puts exactly one *)
(* event on exactly one channel; so events and TriggerRebuild deliveries   *)
(* correspond one to one, and no other operation sends anything.           *)
(***************************************************************************)
Delivers(p) == pc[p] = "tr_send" /\ pc'[p] # "tr_send"

OnlyTriggersDeliver ==
    /\ (\E c \in Channels : Gain(c)) => \E p \in Procs : Delivers(p)
    /\ \A p \in Procs : Delivers(p) =>
         /\ Cardinality({c \in Channels : Gain(c)}) = 1
         /\ \A c \in Channels : Gain(c) => Accepts(c, out'.event.path)
         /\ call[p].op = "TriggerRebuild" => out'.ret.err = "nil"
         /\ call[p].op = "TriggerRebuilds" =>
              IF pc'[p] = "idle"
              THEN out'.ret.errs = loc[p].errs
              ELSE loc'[p].errs = loc[p].errs
    /\ \A c \in Channels : Len(chans'[c]) <= Len(chans[c]) + 1
    /\ (out'.event # NoEvent /\ out' # out) => Gain(out'.event.chan)

C3_OnlyTriggersDeliver == [][OnlyTriggersDeliver]_vars

\* an event has just been delivered
C3_Witness == out.event # NoEvent /\ out.ret.call.op = "TriggerRebuild"

(***************************************************************************)
(* C4.  A TriggerRebuild of a registered artifact whose watch path has a   *)
(* channel fails only if the working directory or the write fails; when it *)
(* returns nil it has written the artifact's trigger file once and sent    *)
(* one event: on the channel registered for the watch path derived from    *)
(* the artifact's workspace, on no other channel, naming the artifact's    *)
(* own trigger file.                                                       *)
(***************************************************************************)
TriggerDeliversRight(p) ==
    LET name == call[p].name IN
    (TriggerRebuildReturns(p) /\ Watched(name)) =>
       LET f == artifacts[name].triggerFile
           c == watches[WatchOf(name)]
       IN /\ out'.ret.err \in {"nil", "failed to get watch path",
                               "failed to write to trigger file"}
          /\ out'.ret.err = "nil" =>
               /\ out'.ret.eff.writes = <<f>>
               /\ fs'[f].size = 1
               /\ out'.ret.eff.sends = <<[chan |-> c, path |-> f]>>
               /\ Accepts(c, f)
               /\ UNCHANGED <<artifacts, watches>>

C4_TriggerDeliversRight == [][\A p \in Procs : TriggerDeliversRight(p)]_vars

\* two artifacts share a workspace, hence a channel, and the trigger of one
\* of them has sent the event that names its own file
C4_Witness ==
    /\ out.ret.call.op = "TriggerRebuild"
    /\ out.ret.call.name = backend
    /\ out.ret.err = "nil"
    /\ frontend \in DOMAIN artifacts
    /\ artifacts[frontend].workspace = artifacts[backend].workspace
    /\ out.event.path = artifacts[backend].triggerFile
    /\ out.event.path # artifacts[frontend].triggerFile

(***************************************************************************)
(* C5.  A TriggerRebuild of a registered artifact whose derived watch path *)
(* has no channel returns the watch-not-found error (it has no derived     *)
(* path, and returns the path error, when the working directory fails),    *)
(* and the call has written no file, sent no event and changed neither map.*)
(***************************************************************************)
TriggerUnwatchedFails(p) ==
    LET name == call[p].name IN
    TriggerRebuildReturns(p) =>
       /\ Unwatched(name) =>
            /\ out'.ret.err \in {"watch not found", "failed to get watch path"}
            /\ out'.ret.eff = NoEff
            /\ UNCHANGED <<artifacts, watches, fs, chans, receiving>>
       /\ out'.ret.err = "watch not found" => Unwatched(name)

C5_TriggerUnwatchedFails == [][\A p \in Procs : TriggerUnwatchedFails(p)]_vars

\* a trigger has failed for want of a watch, another path being watched
C5_Witness ==
    /\ out.ret.call.op = "TriggerRebuild"
    /\ out.ret.err = "watch not found"
    /\ watches # EmptyMap

(***************************************************************************)
(* C6.  A TriggerRebuild of a name without a record returns the            *)
(* artifact-not-found error, and the call has written no file, sent no     *)
(* event and changed neither map: the name still has no record.            *)
(***************************************************************************)
TriggerUnknownFails(p) ==
    LET name == call[p].name IN
    TriggerRebuildReturns(p) =>
       /\ name \notin DOMAIN artifacts =>
            /\ out'.ret.err = "artifact not found"
            /\ out'.ret.eff = NoEff
            /\ name \notin DOMAIN artifacts'
            /\ UNCHANGED <<artifacts, watches, fs, chans, receiving>>
       /\ out'.ret.err = "artifact not found" => name \notin DOMAIN artifacts

C6_TriggerUnknownFails == [][\A p \in Procs : TriggerUnknownFails(p)]_vars

\* a trigger of an unknown name has failed while other artifacts and a
\* watch are registered
C6_Witness ==
    /\ out.ret.call.op = "TriggerRebuild"
    /\ out.ret.err = "artifact not found"
    /\ artifacts # EmptyMap
    /\ watches # EmptyMap

(***************************************************************************)
(* TriggerRebuilds: what the expressions of the fan-out are expected to    *)
(* do, written down name by name.                                          *)
(***************************************************************************)
\* the TriggerRebuilds call of p returns in this step
TriggerRebuildsReturns(p) == call[p].op = "TriggerRebuilds" /\ Returns(p)

MalformedExpressions == {ExprMalformed, ExprFrontendMalformed, ExprMalformedFrontend}

\* the image names the valid expressions are expected to match
Expected(expr) ==
    CASE expr = ExprFrontend -> {frontend}
      [] expr = ExprBackendStar -> {backend, backendApi}
      [] expr = ExprFrontendBackend -> {frontend, backend}
      [] expr = ExprSpaced -> {frontend, backend}
      [] expr = ExprStar -> {frontend, backend, backendApi}
      [] expr = ExprFrontendFrontStar -> {frontend}
      [] expr = ExprFrontendTwice -> {frontend}
      [] expr = ExprBackendAnyApi -> {backendApi}
      [] OTHER -> {}

\* the number of patterns of expr that are expected to match name n
Times(expr, n) ==
    IF n \notin Expected(expr) THEN 0
    ELSE IF expr \in {ExprFrontendFrontStar, ExprFrontendTwice} THEN 2 ELSE 1

\* the event a successful trigger of name n sends
EventOf(n) == [chan |-> watches[WatchOf(n)], path |-> artifacts[n].triggerFile]

\* the number of elements of sequence s for which Test holds
Count(s, Test(_)) == Len(SelectSeq(s, Test))

\* the call has done nothing: it wrote no file and sent no event, in this
\* step or before, and left the maps alone
NothingDone ==
    /\ out'.ret.eff = NoEff
    /\ out'.wrote = NoFile /\ out'.event = NoEvent
    /\ UNCHANGED <<artifacts, watches, fs, chans, receiving>>

(***************************************************************************)
(* C7.  TriggerRebuilds does not short-circuit.  When it returns from its  *)
(* loop, every matched name has been attempted, in order, failures         *)
(* notwithstanding: each attempt either sent the event of its artifact or  *)
(* is named, with its reason, in the aggregate.  The call returns nil      *)
(* exactly when no attempt failed and the aggregate error otherwise; an    *)
(* artifact without watch is always among the failures, and the events of  *)
(* the attempts that succeeded have been sent all the same.                *)
(***************************************************************************)
RECURSIVE Attempted(_, _, _)
\* the names m have been attempted in order, each attempt either adding to
\* the failures E or to the events S
Attempted(m, E, S) ==
    IF m = <<>> THEN E = <<>> /\ S = <<>>
    ELSE \/ /\ E # <<>>
            /\ E[1].name = m[1]
            /\ E[1].err \in IF Watched(m[1])
                            THEN {"failed to get watch path", "failed to write to trigger file"}
                            ELSE {"failed to get watch path", "watch not found"}
            /\ Attempted(Tail(m), Tail(E), S)
         \/ /\ S # <<>>
            /\ Watched(m[1])
            /\ S[1] = EventOf(m[1])
            /\ Attempted(Tail(m), E, Tail(S))

NoShortCircuit(p) ==
    (TriggerRebuildsReturns(p) /\ loc[p].matched # <<>>) =>
       /\ Attempted(loc[p].matched, out'.ret.errs, out'.ret.eff.sends)
       /\ out'.ret.err = IF out'.ret.errs = <<>> THEN "nil"
                         ELSE "errors triggering rebuilds"
       /\ Len(out'.ret.eff.writes) >= Len(out'.ret.eff.sends)

C7_NoShortCircuit == [][\A p \in FanoutProcs : NoShortCircuit(p)]_vars

\* "frontend,backend" with no watch for frontend: the first attempt failed,
\* the aggregate names frontend alone, and backend got its event after it
C7_Witness ==
    /\ out.ret.call.expr = ExprFrontendBackend
    /\ out.ret.err = "errors triggering rebuilds"
    /\ out.ret.errs = <<[name |-> frontend, err |-> "watch not found"]>>
    /\ Watched(backend)
    /\ out.ret.eff.sends = <<EventOf(backend)>>

(***************************************************************************)
(* C8.  An expression with a malformed pattern, whether alone, after or    *)
(* before a valid pattern, fails with the invalid-pattern error that names *)
(* the malformed pattern, and the call has written no trigger file and     *)
(* sent no event, not even for the artifacts its valid patterns match; no  *)
(* other expression fails with that error.                                 *)
(***************************************************************************)
InvalidPatternFails(p) ==
    TriggerRebuildsReturns(p) =>
       IF call[p].expr \in MalformedExpressions
       THEN /\ out'.ret.err = "invalid pattern"
            /\ out'.ret.pat = malformed
            /\ NothingDone
       ELSE out'.ret.err # "invalid pattern"

C8_InvalidPatternFails == [][\A p \in FanoutProcs : InvalidPatternFails(p)]_vars

\* the malformed pattern came after one that matches a registered artifact
\* with a watch
C8_Witness ==
    /\ out.ret.call.expr = ExprFrontendMalformed
    /\ out.ret.err = "invalid pattern"
    /\ Watched(frontend)

(***************************************************************************)
(* C9.  A call with valid patterns attempts exactly the registered names   *)
(* its expression is expected to match, each once per matching pattern and *)
(* no other name; when it returns nil, every one of them has got its       *)
(* event, and the number of events is the number of matches.  Against      *)
(* frontend, backend and backend-api: "frontend" triggers frontend,        *)
(* "backend*" backend and backend-api, "frontend,backend" and              *)
(* " frontend , backend " frontend and backend, "*" all three.             *)
(***************************************************************************)
TriggersTheMatches(p) ==
    (TriggerRebuildsReturns(p) /\ call[p].expr \notin MalformedExpressions) =>
       LET expr == call[p].expr
           E == out'.ret.errs
           S == out'.ret.eff.sends
       IN \A n \in ImageNames \cup {nonexistent} :
             LET k == IF n \in DOMAIN artifacts THEN Times(expr, n) ELSE 0
                 failed == Count(E, LAMBDA x : x.name = n)
                 sent == IF n \in DOMAIN artifacts
                         THEN Count(S, LAMBDA x : x.path = artifacts[n].triggerFile)
                         ELSE 0
             IN /\ failed + sent = k
                /\ out'.ret.err = "nil" => sent = k /\ (k > 0 => Count(S, LAMBDA x : x = EventOf(n)) = k)

C9_TriggersTheMatches == [][\A p \in FanoutProcs : TriggersTheMatches(p)]_vars

\* "backend*" against the three artifacts: two events, for backend and
\* backend-api, none for frontend
C9_Witness ==
    /\ out.ret.call.expr = ExprBackendStar
    /\ out.ret.err = "nil"
    /\ DOMAIN artifacts = ImageNames
    /\ Watched(frontend)
    /\ Len(out.ret.eff.sends) = 2
    /\ Range(out.ret.eff.sends) = {EventOf(backend), EventOf(backendApi)}

(***************************************************************************)
(* C10.  A call with valid patterns fails with the no-match error exactly  *)
(* when no registered name is among those its expression is expected to    *)
(* match, an empty registry included; the error names the expression as it *)
(* was passed, and the call has written no trigger file and sent no event. *)
(***************************************************************************)
NoMatchFails(p) ==
    (TriggerRebuildsReturns(p) /\ call[p].expr \notin MalformedExpressions) =>
       IF Expected(call[p].expr) \cap DOMAIN artifacts = {}
       THEN /\ out'.ret.err = "no artifacts matched pattern"
            /\ out'.ret.pat = call[p].expr
            /\ NothingDone
       ELSE out'.ret.err # "no artifacts matched pattern"

C10_NoMatchFails == [][\A p \in FanoutProcs : NoMatchFails(p)]_vars

\* artifacts and watches are registered, and none is called "nonexistent"
C10_Witness ==
    /\ out.ret.call.expr = ExprNonexistent
    /\ out.ret.err = "no artifacts matched pattern"
    /\ out.ret.pat = ExprNonexistent
    /\ Watched(frontend)

(***************************************************************************)
(* C11.  TriggerRebuilds does not deduplicate.  For "frontend,front*" and  *)
(* "frontend,frontend", whose two patterns both match frontend, a call     *)
(* that finds frontend registered attempts it twice; when the call returns *)
(* nil it has written frontend's trigger file twice and sent two events    *)
(* that name it, both on frontend's channel.                               *)
(***************************************************************************)
NoDeduplication(p) ==
    (/\ TriggerRebuildsReturns(p)
     /\ call[p].expr \in {ExprFrontendFrontStar, ExprFrontendTwice}
     /\ frontend \in DOMAIN artifacts) =>
       LET f == artifacts[frontend].triggerFile
           failed == Count(out'.ret.errs, LAMBDA x : x.name = frontend)
           wrote == Count(out'.ret.eff.writes, LAMBDA x : x = f)
           sent == Count(out'.ret.eff.sends, LAMBDA x : x.path = f)
       IN /\ failed + sent = 2
          /\ wrote >= sent
          /\ out'.ret.err = "nil" =>
               /\ out'.ret.eff.writes = <<f, f>>
               /\ out'.ret.eff.sends = <<EventOf(frontend), EventOf(frontend)>>

C11_NoDeduplication == [][\A p \in FanoutProcs : NoDeduplication(p)]_vars

\* "frontend,front*" has triggered frontend twice
C11_Witness ==
    /\ out.ret.call.expr = ExprFrontendFrontStar
    /\ out.ret.err = "nil"
    /\ Watched(frontend)
    /\ out.ret.eff.writes = <<artifacts[frontend].triggerFile, artifacts[frontend].triggerFile>>
    /\ out.ret.eff.sends = <<EventOf(frontend), EventOf(frontend)>>

(***************************************************************************)
(* C12.  AddWatch always returns nil and, whatever event kinds it is       *)
(* given, leaves its channel as the one channel of its path, an earlier    *)
(* one replaced, with every other path's channel and the artifacts as they *)
(* were, no file written and no event sent.  Nothing but a returning       *)
(* AddWatch changes a registration, and an event is accepted only by the   *)
(* channel registered, at the time of the send, for the watch path of the  *)
(* triggered artifact: after a re-registration that is the new channel,    *)
(* never the replaced one.                                                 *)
(***************************************************************************)
AddWatchReturns(p) == call[p].op = "AddWatch" /\ Returns(p)

LastRegistrationWins ==
    /\ \A p \in Procs : AddWatchReturns(p) =>
          /\ out'.ret.err = "nil"
          /\ DOMAIN watches' = DOMAIN watches \cup {call[p].path}
          /\ watches'[call[p].path] = call[p].ch
          /\ \A q \in DOMAIN watches \ {call[p].path} : watches'[q] = watches[q]
          /\ out'.ret.eff.writes = <<>> /\ out'.ret.eff.sends = <<>>
          /\ UNCHANGED <<artifacts, fs, chans, receiving>>
    /\ watches' # watches => \E p \in Procs : AddWatchReturns(p)
    /\ \A c \in Channels : Gain(c) =>
          \E p \in Procs :
             /\ call[p].op \in {"TriggerRebuild", "TriggerRebuilds"}
             /\ Watched(Cur(p))
             /\ c = watches[WatchOf(Cur(p))]
             /\ Accepts(c, artifacts[Cur(p)].triggerFile)

C12_LastRegistrationWins == [][LastRegistrationWins]_vars

\* the watch path of frontend has been registered again: an event naming
\* frontend's trigger file is still in the buffer of the replaced channel,
\* and the next one has gone to the new channel
C12_Witness ==
    /\ frontend \in DOMAIN artifacts
    /\ chans["buf"] = <<artifacts[frontend].triggerFile>>
    /\ out.event = [chan |-> "unbuf", path |-> artifacts[frontend].triggerFile]
    /\ out.ret.call.op = "TriggerRebuild"
    /\ out.ret.err = "nil"

(***************************************************************************)
(* C13.  WatchPath of an absolute workspace does not depend on the working *)
(* directory: it returns nil and the workspace joined with "...", whether  *)
(* or not the working directory can be determined.  WatchPath of a         *)
(* relative workspace returns the working directory joined with the        *)
(* workspace and "...", or fails because the working directory cannot be   *)
(* determined.                                                             *)
(***************************************************************************)
C13_AbsoluteNeverFails ==
    out.ret.call.op = "WatchPath" =>
       LET w == out.ret.call.ws IN
       IF IsAbs(w)
       THEN out.ret.err = "nil" /\ out.ret.path = Join(w, <<"...">>)
       ELSE \/ out.ret.err = "nil" /\ out.ret.path = Join(Join(wd, w), <<"...">>)
            \/ out.ret.err = "failed to get working directory" /\ out.ret.path = NoPath

(***************************************************************************)
(* C14.  Records are never removed or replaced and watch registrations are *)
(* never deleted: in every step each record stays as it is and each        *)
(* registered watch path stays registered.  The artifacts change only when *)
(* a GetDependencies for a name without record returns, which adds that    *)
(* one record; AddWatch, TriggerRebuild, TriggerRebuilds, the list         *)
(* operations and a repeated GetDependencies leave them alone, and what    *)
(* GetArtifacts returns is the set of names registered, which only grows.  *)
(***************************************************************************)
RecordsKept ==
    /\ \A n \in DOMAIN artifacts : n \in DOMAIN artifacts' /\ artifacts'[n] = artifacts[n]
    /\ \A q \in DOMAIN watches : q \in DOMAIN watches'
    /\ artifacts' # artifacts =>
          \E p \in Procs :
             /\ call[p].op = "GetDependencies" /\ Returns(p)
             /\ call[p].name \notin DOMAIN artifacts
             /\ DOMAIN artifacts' = DOMAIN artifacts \cup {call[p].name}
    /\ \A p \in Procs : (call[p].op = "GetArtifacts" /\ Returns(p)) =>
          out'.ret.list = DOMAIN artifacts /\ artifacts' = artifacts

C14_RecordsKept == [][RecordsKept]_vars

\* a TriggerRebuilds whose attempts all failed has returned, and both
\* records and the watch are still there
C14_Witness ==
    /\ out.ret.call.op = "TriggerRebuilds"
    /\ Len(out.ret.errs) = 2
    /\ DOMAIN artifacts = {frontend, backend}
    /\ DOMAIN watches # {}

(***************************************************************************)
(* C15.  Every operation is one critical section under r.mtx: a caller     *)
(* that is past its Lock and has not returned holds the mutex, so at most  *)
(* one is, and only the holder changes the maps, writes a file or sends.   *)
(* A TriggerRebuild that has made its lookups and not yet returned still   *)
(* has the record and the channel the maps hold; until it returns no step  *)
(* changes the maps, and every write and every send is its own: neither    *)
(* another trigger's write or send nor an AddWatch or GetDependencies      *)
(* comes in between.                                                       *)
(***************************************************************************)
InCritical(p) == pc[p] \notin LockPcs \cup {"idle"}

PastLookups(p) == call[p].op = "TriggerRebuild" /\ pc[p] \in {"tr_write", "tr_send"}

OneCriticalSection ==
    /\ \A p \in Procs : InCritical(p) => mtx = p
    /\ \A p \in Procs : (pc'[p] \notin LockPcs \cup {"idle"}) => mtx' = p
    /\ (\/ artifacts' # artifacts \/ watches' # watches \/ fs' # fs
        \/ \E c \in Channels : Gain(c)) =>
          /\ mtx # NoProc
          /\ pc'[mtx] # pc[mtx]
    /\ \A p \in Procs : PastLookups(p) =>
          /\ loc[p].art = artifacts[call[p].name]
          /\ loc[p].watch = watches[WatchOf(call[p].name)]
          /\ artifacts' = artifacts /\ watches' = watches
          /\ \A q \in Procs \ {p} : pc'[q] # pc[q] => pc'[q] \in LockPcs

C15_OneCriticalSection == [][OneCriticalSection]_vars

\* a trigger of frontend has written and is about to send, while a trigger
\* of backend waits for the mutex
C15_Witness ==
    /\ pc["p1"] = "tr_send" /\ call["p1"].name = frontend /\ mtx = "p1"
    /\ pc["p2"] = "tr_lock" /\ call["p2"].name = backend
    /\ backend \in DOMAIN artifacts

(***************************************************************************)
(* C16.  The send of TriggerRebuild blocks with the mutex held.  A trigger *)
(* returns nil only in the step in which its channel accepts its event; an *)
(* event leaves a channel only by being received, the oldest first, so     *)
(* none is dropped.  While a trigger waits for a full or unbuffered        *)
(* channel to accept, it holds the mutex and no call returns.  If the      *)
(* consumers keep receiving, every call that has started returns.          *)
(***************************************************************************)
Waiting(p) == pc[p] = "tr_send" /\ ~CanSend(loc[p].watch)

BlockingSend ==
    /\ \A p \in Procs : (TriggerRebuildReturns(p) /\ out'.ret.err = "nil") =>
          /\ pc[p] = "tr_send"
          /\ Gain(loc[p].watch)
          /\ out'.event = [chan |-> loc[p].watch, path |-> loc[p].art.triggerFile]
    /\ \A c \in Channels :
          /\ chans'[c] # chans[c] =>
                \/ chans[c] # <<>> /\ chans'[c] = Tail(chans[c])
                \/ \E f \in 1..Len(fs) : chans'[c] = Append(chans[c], f)
          /\ Len(chans'[c]) <= Cap(c)
    /\ \A p \in Procs : Waiting(p) =>
          /\ mtx = p
          /\ \A q \in Procs : ~Returns(q)

EveryCallReturns == \A p \in Procs : (pc[p] # "idle") ~> (pc[p] = "idle")

C16_BlockingSend == [][BlockingSend]_vars /\ EveryCallReturns

\* a trigger waits, the mutex held, for the full buffered channel to accept,
\* and the other caller waits for the mutex
C16_Witness ==
    /\ Waiting("p1") /\ loc["p1"].watch = "buf"
    /\ pc["p2"] = "gd_lock"

(***************************************************************************)
(* C17.  A GetDependencies that cannot create the temporary file returns   *)
(* the error and no dependency list; the name had no record and has none   *)
(* afterwards, and maps, files and channels are as they were.  A name      *)
(* without record is not in what GetArtifacts and GetArtifactTriggerFiles  *)
(* return, and a TriggerRebuild of it fails with artifact-not-found.       *)
(***************************************************************************)
FailedCreateLeavesNothing(p) ==
    /\ (call[p].op = "GetDependencies" /\ Returns(p) /\ out'.ret.err # "nil") =>
          /\ out'.ret.err = "failed to create temp file"
          /\ out'.ret.files = <<>>
          /\ call[p].name \notin DOMAIN artifacts
          /\ call[p].name \notin DOMAIN artifacts'
          /\ out'.ret.eff = NoEff
          /\ UNCHANGED <<artifacts, watches, fs, chans, receiving>>
    /\ (call[p].op = "GetArtifacts" /\ Returns(p)) =>
          \A n \in out'.ret.list : n \in DOMAIN artifacts
    /\ (call[p].op = "GetArtifactTriggerFiles" /\ Returns(p)) =>
          \A x \in out'.ret.tf : x[1] \in DOMAIN artifacts /\ x[2] # NoFile
    /\ (TriggerRebuildReturns(p) /\ call[p].name \notin DOMAIN artifacts) =>
          out'.ret.err = "artifact not found"

C17_FailedCreateLeavesNothing == [][\A p \in Procs : FailedCreateLeavesNothing(p)]_vars

\* the creation of frontend's file has failed; backend is registered,
\* frontend is not
C17_Witness ==
    /\ out.ret.call.op = "GetDependencies"
    /\ out.ret.call.name = frontend
    /\ out.ret.err = "failed to create temp file"
    /\ DOMAIN artifacts = {backend}

(***************************************************************************)
(* C18.  With the pipeline receiving from the unbuffered channel and       *)
(* asking for the dependencies after each event, no state is reached in    *)
(* which a trigger holds the mutex, blocked in its send because the        *)
(* pipeline is not receiving, while the pipeline waits for the mutex.      *)
(***************************************************************************)
C18_NoTriggerBlocksPipeline ==
    ~ \E p \in Procs \ {Pipeline} :
         /\ pc[p] = "tr_send"
         /\ mtx = p
         /\ loc[p].watch = PipelineChannel
         /\ ~CanSend(PipelineChannel)
         /\ pc[Pipeline] \in LockPcs

(***************************************************************************)
(* C19.  No attempt of a TriggerRebuilds fails with artifact-not-found,    *)
(* whatever the other caller does meanwhile.  Between its snapshot and     *)
(* each attempt the call does not hold the mutex, yet every name it has    *)
(* matched has a record whenever an attempt looks it up, and the failures  *)
(* its aggregate reports are path derivation, watch-not-found and          *)
(* trigger-file write errors only.                                         *)
(***************************************************************************)
InFanout(p) == call[p].op = "TriggerRebuilds"

AttemptsFindRecords(p) ==
    /\ (InFanout(p) /\ pc[p] \in {"trs_match", "tr_lock"}) => mtx # p
    /\ (InFanout(p) /\ pc[p] \in {"tr_lock", "tr_lookup", "tr_write", "tr_send"}) =>
          \A i \in 1..Len(loc[p].matched) : loc[p].matched[i] \in DOMAIN artifacts
    /\ (InFanout(p) /\ Returns(p)) =>
          \A i \in 1..Len(out'.ret.errs) :
             out'.ret.errs[i].err \in {"failed to get watch path", "watch not found",
                                       "failed to write to trigger file"}

C19_AttemptsFindRecords == [][\A p \in Procs : AttemptsFindRecords(p)]_vars

\* the first attempt of p1's fan-out has failed for want of a watch, and the
\* fan-out waits for the mutex, which p2 holds to register the watch
C19_Witness ==
    /\ InFanout("p1") /\ pc["p1"] = "tr_lock"
    /\ Len(loc["p1"].errs) = 1 /\ loc["p1"].errs[1].err = "watch not found"
    /\ mtx = "p2" /\ call["p2"].op = "AddWatch" /\ pc["p2"] = "aw_store"

(***************************************************************************)
(* C20.  TriggerRebuilds is not atomic.  Its snapshot is the set of names  *)
(* registered when GetArtifacts runs; the names it matches are names of    *)
(* the snapshot and stay the same to the end of the call; every attempt it *)
(* reports and every event it sends is for one of them, so an artifact     *)
(* registered after the snapshot is not triggered by the call.  Each       *)
(* attempt looks the channel up when it is made: it fails for want of a    *)
(* watch exactly when none is registered then, and it sends on the channel *)
(* registered then, also when that was registered after the snapshot.      *)
(***************************************************************************)
SnapshotThenLookups(p) ==
    InFanout(p) =>
       /\ (pc[p] = "ga_read" /\ pc'[p] = "trs_match") =>
             Range(loc'[p].snapshot) = DOMAIN artifacts
       /\ (pc[p] = "trs_match" /\ pc'[p] = "tr_lock") =>
             Range(loc'[p].matched) \subseteq Range(loc[p].snapshot)
       /\ (pc[p] = "trs_match" /\ Returns(p)) =>
             /\ out'.ret.err = "no artifacts matched pattern"
             /\ \A n \in Range(loc[p].snapshot) : ~Match(TrimSpace(call[p].expr), n)
       /\ (pc[p] \in {"tr_lock", "tr_lookup", "tr_write", "tr_send"} /\ ~Returns(p)) =>
             loc'[p].matched = loc[p].matched
       /\ (pc[p] \in {"tr_lookup", "tr_write", "tr_send"} /\ Returns(p)) =>
             /\ \A i \in 1..Len(out'.ret.errs) :
                   out'.ret.errs[i].name \in Range(loc[p].matched)
             /\ \A i \in 1..Len(out'.ret.eff.sends) :
                   \E n \in Range(loc[p].matched) :
                      out'.ret.eff.sends[i].path = artifacts[n].triggerFile
       /\ (pc[p] = "tr_lookup" /\ pc'[p] # "tr_lookup") =>
             LET errs == IF Returns(p) THEN out'.ret.errs ELSE loc'[p].errs
                 failed == Len(errs) > Len(loc[p].errs)
             IN /\ Unwatched(Cur(p)) => failed
                /\ (Watched(Cur(p)) /\ failed) =>
                      errs[Len(errs)].err = "failed to get watch path"
       /\ (pc[p] = "tr_send" /\ pc'[p] # "tr_send") =>
             Accepts(watches[WatchOf(Cur(p))], artifacts[Cur(p)].triggerFile)

C20_SnapshotThenLookups == [][\A p \in Procs : SnapshotThenLookups(p)]_vars

\* "*" has returned: its first attempt failed for want of a watch and its
\* second, for an artifact of the same workspace, sent its event, so the
\* watch was registered between the two
C20_Witness ==
    /\ out.ret.call.expr = ExprStar
    /\ Len(out.ret.errs) = 1 /\ out.ret.errs[1].err = "watch not found"
    /\ Len(out.ret.eff.sends) = 1
    /\ \A n \in DOMAIN artifacts : artifacts[n].workspace = frontendWorkspace

(***************************************************************************)
(* C21.  The first inquiry fixes the workspace of an artifact.  The record *)
(* a GetDependencies creates has the workspace of that call, and no step   *)
(* changes the workspace of a record; a GetDependencies for a name that    *)
(* has a record, whatever workspace it declares, returns nil and the       *)
(* record's trigger file and leaves the artifacts as they are.  A          *)
(* TriggerRebuild looks its channel up under the watch path derived from   *)
(* the stored workspace: it goes on to write only when that path is        *)
(* registered, with the channel of that path, fails for want of a watch    *)
(* only when that path is not registered, and its event is accepted by the *)
(* channel of that path, whichever other paths are registered.             *)
(***************************************************************************)
FirstInquiryFixes ==
    /\ \A n \in DOMAIN artifacts :
          n \in DOMAIN artifacts' /\ artifacts'[n].workspace = artifacts[n].workspace
    /\ \A p \in Procs : (call[p].op = "GetDependencies" /\ Returns(p)) =>
          LET name == call[p].name IN
          IF name \in DOMAIN artifacts
          THEN /\ out'.ret.err = "nil"
               /\ out'.ret.files = <<artifacts[name].triggerFile>>
               /\ artifacts' = artifacts
          ELSE out'.ret.err = "nil" => artifacts'[name].workspace = call[p].ws
    /\ \A p \in Procs : call[p].op = "TriggerRebuild" =>
          LET name == call[p].name IN
          /\ (pc[p] = "tr_lookup" /\ pc'[p] = "tr_write") =>
                /\ Watched(name)
                /\ loc'[p].watch = watches[WatchOf(name)]
          /\ (Returns(p) /\ out'.ret.err = "watch not found") => Unwatched(name)
          /\ (Returns(p) /\ out'.ret.err = "nil") =>
                /\ Accepts(watches[WatchOf(name)], artifacts[name].triggerFile)
                /\ \A c \in Channels : Gain(c) => c = watches[WatchOf(name)]

C21_FirstInquiryFixes == [][FirstInquiryFixes]_vars

\* frontend, registered with the relative workspace and triggered since, has
\* been asked about again with the absolute workspace, whose watch path is
\* registered with another channel: the call returned the trigger file, and
\* the record has the relative workspace still
C21_Witness ==
    /\ out.ret.call.op = "GetDependencies"
    /\ out.ret.call.name = frontend
    /\ out.ret.call.ws = absWorkspace
    /\ out.ret.err = "nil"
    /\ artifacts[frontend].workspace = frontendWorkspace
    /\ out.ret.files = <<artifacts[frontend].triggerFile>>
    /\ fs[artifacts[frontend].triggerFile].size = 1
    /\ WatchPath(absWorkspace, TRUE).path \in DOMAIN watches
    /\ WatchPath(frontendWorkspace, TRUE).path \in DOMAIN watches
    /\ watches[WatchPath(absWorkspace, TRUE).path] # watches[WatchPath(frontendWorkspace, TRUE).path]

(***************************************************************************)
(* C22.  In TriggerRebuild the write of the trigger file strictly precedes *)
(* the send.  The step that leaves the write either has written the file   *)
(* of the record, one byte, and goes on to the send without any channel    *)
(* accepting anything, or has written nothing and returns the write error: *)
(* that call has sent no event, no channel has changed and the maps are as *)
(* they were.  No step both writes and sends, and a channel accepts an     *)
(* event only from a trigger whose last action was the successful write of *)
(* the file the event names.                                               *)
(***************************************************************************)
WritePrecedesSend ==
    /\ \A p \in Procs : (pc[p] = "tr_write" /\ pc'[p] # "tr_write") =>
          /\ \A c \in Channels : ~Gain(c)
          /\ UNCHANGED <<artifacts, watches, chans, receiving>>
          /\ IF out'.wrote # NoFile
             THEN /\ pc'[p] = "tr_send"
                  /\ out'.wrote = artifacts[Cur(p)].triggerFile
                  /\ fs'[out'.wrote].size = 1
                  /\ loc'[p].eff.writes = Append(loc[p].eff.writes, out'.wrote)
             ELSE /\ fs' = fs
                  /\ pc'[p] # "tr_send"
                  /\ call[p].op = "TriggerRebuild" =>
                        /\ Returns(p)
                        /\ out'.ret.err = "failed to write to trigger file"
                        /\ out'.ret.eff = NoEff
    /\ \A p \in Procs :
          (TriggerRebuildReturns(p) /\ out'.ret.err = "failed to write to trigger file") =>
             /\ pc[p] = "tr_write"
             /\ out'.event = NoEvent
    /\ (out' # out /\ out'.wrote # NoFile) => out'.event = NoEvent
    /\ \A c \in Channels : Gain(c) =>
          \E p \in Procs :
             LET w == loc[p].eff.writes IN
             /\ pc[p] = "tr_send"
             /\ w # <<>>
             /\ w[Len(w)] = out'.event.path
             /\ fs[out'.event.path].size = 1
             /\ out'.event.chan = c
             /\ out'.wrote = NoFile /\ fs' = fs

C22_WritePrecedesSend == [][WritePrecedesSend]_vars

\* a trigger of a registered and watched artifact has failed at the write:
\* its file is still empty and no channel holds an event
C22_Witness ==
    /\ out.ret.call.op = "TriggerRebuild"
    /\ out.ret.err = "failed to write to trigger file"
    /\ Watched(out.ret.call.name)
    /\ out.ret.eff = NoEff
    /\ fs[artifacts[out.ret.call.name].triggerFile].size = 0
    /\ \A c \in Channels : chans[c] = <<>>

(***************************************************************************)
(* C23.  The list operations are read-only and consistent with the maps    *)
(* and with each other.  GetArtifacts returns the names that have a        *)
(* record; GetArtifactTriggerFiles returns, for exactly those names, the   *)
(* trigger file of the record, different names having different files;     *)
(* GetWatches returns the registered watch paths, whether or not an        *)
(* artifact derives them.  No step of a list operation, from its call to   *)
(* its return, changes a map, writes a file or sends an event.             *)
(***************************************************************************)
ListOps == {"GetArtifacts", "GetArtifactTriggerFiles", "GetWatches"}

ListsConsistent(p) ==
    /\ (call[p].op = "GetArtifacts" /\ Returns(p)) =>
          /\ out'.ret.list = DOMAIN artifacts
          /\ NothingDone
    /\ (call[p].op = "GetArtifactTriggerFiles" /\ Returns(p)) =>
          /\ {x[1] : x \in out'.ret.tf} = DOMAIN artifacts
          /\ \A x \in out'.ret.tf :
                x[2] = artifacts[x[1]].triggerFile /\ x[2] \in 1..Len(fs)
          /\ \A x, y \in out'.ret.tf : (x[1] = y[1]) <=> (x[2] = y[2])
          /\ NothingDone
    /\ (call[p].op = "GetWatches" /\ Returns(p)) =>
          /\ out'.ret.list = DOMAIN watches
          /\ NothingDone
    /\ ((call[p].op \in ListOps \/ call'[p].op \in ListOps) /\ pc'[p] # pc[p]) =>
          /\ UNCHANGED <<artifacts, watches, fs, chans, receiving>>
          /\ out'.wrote = NoFile /\ out'.event = NoEvent

C23_ListsConsistent == [][\A p \in Procs : ListsConsistent(p)]_vars

\* the trigger files of two artifacts have been listed: two names, two
\* files, while a watch is registered and an event is waiting in a channel
C23_Witness ==
    /\ out.ret.call.op = "GetArtifactTriggerFiles"
    /\ Cardinality(out.ret.tf) = 2
    /\ Cardinality({x[2] : x \in out.ret.tf}) = 2
    /\ \E c \in Channels : chans[c] # <<>>
    /\ DOMAIN watches # {}

====
